---- MODULE Spec2Model ----
(***************************************************************************)
(* Air-quality feed collector (lambda_collect/lambda_function.py) and the  *)
(* read queries over the stored table (lambda_deliver_data/app.py).        *)
(*                                                                         *)
(* Text is a sequence of one-character strings, so that str.strip() and    *)
(* str.split(',') are computed character by character.  A feed summary is  *)
(* a sequence of segments, one per place where one of the six regular      *)
(* expressions of fetch_rss_feed matches; re.search takes the first        *)
(* segment of a kind, re.findall all of them in order.                     *)
(***************************************************************************)
EXTENDS Integers, Sequences, FiniteSets, TLC

VARIABLES
    raw,                \* the feed entry handed to the extraction loop body
    result,             \* what the loop body produced for raw
    pc,                 \* per invocation: position in lambda_handler
    url_i,              \* per invocation: index of the URL being processed
    data,               \* per invocation: list returned by fetch_rss_feed
    outcomes,           \* per invocation: outcome of each insert of data so far
    response,           \* per invocation: what lambda_handler returned
    air_quality,        \* table air_quality, in insertion order
    import_air_quality, \* table import_air_quality
    nulls_distinct,     \* whether the unique index treats NULLs as distinct
    trend,              \* what lambda_get_air_quality_trend returned in the step
                        \* just taken, NoReply after any other step
    above               \* likewise for lambda_get_above_avg_locations

vars == <<raw, result, pc, url_i, data, outcomes, response, air_quality,
          import_air_quality, nulls_distinct, trend, above>>

(***************************************************************************)
(* Bounds                                                                  *)
(***************************************************************************)
MaxSegs == 2        \* regex matches per summary
MaxAqi == 2         \* AQI values 1..MaxAqi of an extracted summary
MaxEntries == 3     \* entries per feed when one invocation runs alone
ConcurrentEntries == 1  \* entries per feed when two invocations overlap
MaxLocLen == 3      \* characters of a location in the location-key runs
MaxReading == 2     \* AQI values 0..MaxReading in the trend runs

\* None / SQL NULL for timestamps and readings (real values are >= 0).
NULL == -1
\* A key absent from a feedparser entry.
Absent == "<absent>"

(***************************************************************************)
(* Text                                                                    *)
(***************************************************************************)
NoLocation == <<"N","o"," ","l","o","c","a","t","i","o","n">>
NoAgency == <<"N","o"," ","a","g","e","n","c","y">>

IsSpace(c) == c = " "

RECURSIVE LStrip(_)
LStrip(s) == IF s # <<>> /\ IsSpace(Head(s)) THEN LStrip(Tail(s)) ELSE s

RECURSIVE RStrip(_)
RStrip(s) ==
    IF s # <<>> /\ IsSpace(s[Len(s)]) THEN RStrip(SubSeq(s, 1, Len(s) - 1)) ELSE s

\* str.strip()
Strip(s) == RStrip(LStrip(s))

\* str.split(',')[0]
RECURSIVE SplitFirst(_)
SplitFirst(s) ==
    IF s = <<>> \/ Head(s) = "," THEN <<>> ELSE <<Head(s)>> \o SplitFirst(Tail(s))

(***************************************************************************)
(* Feed entries                                                            *)
(***************************************************************************)
\* Captured date text: the layout it is written in, the instant it names and
\* the time-zone marker that follows it.
Layouts == {"short", "long"}   \* '%m/%d/%y %I:%M %p' and '%a, %d %b %Y %H:%M:%S'
Markers == {"", " PDT", " UTC"}
DateStrs == [layout : Layouts, ts : {1}, marker : Markers]
Date(layout, ts, marker) == [layout |-> layout, ts |-> ts, marker |-> marker]
NoDate == [layout |-> "", ts |-> 0, marker |-> ""]

\* Pollutant description, by the keywords it contains.
Keywords == {"2.5 microns", "10 microns", "Ozone"}

Seg(kind, text, date, aqi, pollutant) ==
    [kind |-> kind, text |-> text, date |-> date, aqi |-> aqi, pollutant |-> pollutant]

\* Text captured between a label and its closing tag.
Texts == {<<>>, <<"a">>, <<" ","a">>, <<"a"," ">>, <<" ","a"," ">>}
AgencyTexts == {<<"A">>, <<" ","A"," ">>}

Segments ==
    {Seg("unavailable", t, NoDate, 0, {}) : t \in Texts}
    \cup {Seg("location", t, NoDate, 0, {}) : t \in Texts}
    \cup {Seg("date", <<>>, d, 0, {}) : d \in DateStrs}
    \cup {Seg("agency", t, NoDate, 0, {}) : t \in AgencyTexts}
    \cup {Seg("last_update", <<>>, d, 0, {}) : d \in DateStrs}
    \cup {Seg("air_quality", <<>>, NoDate, a, p) : a \in 1..MaxAqi, p \in SUBSET Keywords}

Summaries == UNION {[1..n -> Segments] : n \in 0..MaxSegs}

\* A feedparser entry: has_detail is `'summary_detail' in entry`, and
\* summary_detail the segments of entry['summary_detail']['value'].
RawEntries ==
    [title : {Absent, "T"}, link : {Absent, "L"}, has_detail : {FALSE},
     summary_detail : {<<>>}]
    \cup [title : {"T"}, link : {"L"}, has_detail : {TRUE},
          summary_detail : Summaries]

(***************************************************************************)
(* fetch_rss_feed                                                          *)
(***************************************************************************)
\* re.search: the first segment of the kind, 0 when there is none.
re_search(html, kind) ==
    IF \E i \in 1..Len(html) : html[i].kind = kind
    THEN CHOOSE i \in 1..Len(html) :
             /\ html[i].kind = kind
             /\ \A j \in 1..(i - 1) : html[j].kind # kind
    ELSE 0

\* re.findall
re_findall(html, kind) == SelectSeq(html, LAMBDA g : g.kind = kind)

\* Group 1 of a pattern written '...\s*(.*?)<tag': the \s* takes the leading
\* whitespace, the group the rest.
group1(g) == LStrip(g.text)

\* re.sub(r' [Pp][Dd][Tt]| [Pp][Ss][Tt]$', '', date_str)
re_sub_zone(d) ==
    IF d.marker \in {" PDT", " PST"} THEN [d EXCEPT !.marker = ""] ELSE d

\* ValueError out of datetime.strptime
RAISE == -2

strptime(d, layout) ==
    IF d.layout = layout /\ d.marker = "" THEN d.ts ELSE RAISE

NoReadings == [pm25 |-> NULL, pm10 |-> NULL, ozone |-> NULL]

FirstMatchWins(acc, m) ==
    IF "2.5 microns" \in m.pollutant
    THEN (IF acc.pm25 = NULL THEN [acc EXCEPT !.pm25 = m.aqi] ELSE acc)
    ELSE IF "10 microns" \in m.pollutant
    THEN (IF acc.pm10 = NULL THEN [acc EXCEPT !.pm10 = m.aqi] ELSE acc)
    ELSE IF "Ozone" \in m.pollutant
    THEN (IF acc.ozone = NULL THEN [acc EXCEPT !.ozone = m.aqi] ELSE acc)
    ELSE acc

\* The body of `for match in air_quality_matches`.
classify(acc, m) ==
    IF "2.5 microns" \in m.pollutant THEN [acc EXCEPT !.pm25 = m.aqi]
    ELSE IF "10 microns" \in m.pollutant THEN [acc EXCEPT !.pm10 = m.aqi]
    ELSE IF "Ozone" \in m.pollutant THEN [acc EXCEPT !.ozone = m.aqi]
    ELSE acc

RECURSIVE readings(_, _)
readings(matches, acc) ==
    IF matches = <<>> THEN acc
    ELSE readings(Tail(matches), classify(acc, Head(matches)))

\* One iteration of `for entry in feed.entries`: the entry_data appended,
\* or the exception that leaves the function.
entry_data(entry) ==
    LET title == IF entry.title = Absent THEN "No title" ELSE entry.title
        link == IF entry.link = Absent THEN "No link" ELSE entry.link
        defaults ==
            [title |-> title, link |-> link, location |-> NoLocation,
             report_date |-> NULL, air_quality_pm25 |-> NULL,
             air_quality_pm10 |-> NULL, air_quality_ozone |-> NULL,
             agency |-> NoAgency, last_update |-> NULL]
    IN  IF ~entry.has_detail
        THEN [raised |-> FALSE, entry |-> defaults]
        ELSE
        LET html == entry.summary_detail
            location_match == re_search(html, "location")
            date_match == re_search(html, "date")
            air_quality_matches == re_findall(html, "air_quality")
            agency_match == re_search(html, "agency")
            last_update_match == re_search(html, "last_update")
            unavailable_match == re_search(html, "unavailable")
            location ==
                IF location_match # 0 THEN Strip(group1(html[location_match]))
                ELSE NoLocation
            report_date ==
                IF date_match # 0
                THEN strptime(re_sub_zone(html[date_match].date), "short")
                ELSE NULL
            agency ==
                IF agency_match # 0 THEN Strip(group1(html[agency_match]))
                ELSE NoAgency
            last_update ==
                IF last_update_match # 0
                THEN strptime(re_sub_zone(html[last_update_match].date), "long")
                ELSE NULL
            aq == readings(air_quality_matches, NoReadings)
        IN  IF unavailable_match # 0
            THEN [raised |-> FALSE,
                  entry |-> [defaults EXCEPT
                                !.location = group1(html[unavailable_match])]]
            ELSE IF report_date = RAISE \/ last_update = RAISE
            THEN [raised |-> TRUE, entry |-> defaults]
            ELSE [raised |-> FALSE,
                  entry |-> [title |-> title, link |-> link, location |-> location,
                             report_date |-> report_date,
                             air_quality_pm25 |-> aq.pm25,
                             air_quality_pm10 |-> aq.pm10,
                             air_quality_ozone |-> aq.ozone,
                             agency |-> agency, last_update |-> last_update]]

\* fetch_rss_feed(url), given the entries feedparser returns for the url.
RECURSIVE fetch_rss_feed(_)
fetch_rss_feed(entries) ==
    IF entries = <<>> THEN [raised |-> FALSE, data |-> <<>>]
    ELSE LET first == entry_data(Head(entries))
             rest == fetch_rss_feed(Tail(entries))
         IN  IF first.raised \/ rest.raised
             THEN [raised |-> TRUE, data |-> <<>>]
             ELSE [raised |-> FALSE, data |-> <<first.entry>> \o rest.data]

(***************************************************************************)
(* save_to_db                                                              *)
(***************************************************************************)
UnstrippedValues(entry) ==
    [entry EXCEPT !.location = SplitFirst(entry.location)]

\* The tuple bound to the INSERT's nine placeholders.
values(entry) ==
    [title |-> entry.title,
     link |-> entry.link,
     location |-> Strip(SplitFirst(entry.location)),
     report_date |-> entry.report_date,
     air_quality_pm25 |-> entry.air_quality_pm25,
     air_quality_pm10 |-> entry.air_quality_pm10,
     air_quality_ozone |-> entry.air_quality_ozone,
     agency |-> entry.agency,
     last_update |-> entry.last_update]

\* Whether two values of an indexed column are the same key to the unique
\* index: a NULL equals nothing unless the index is NULLS NOT DISTINCT.
same_key(a, b, distinct) == a = b /\ (a # NULL \/ ~distinct)

NullDatesConflict(table, row, distinct) ==
    \E i \in 1..Len(table) :
        /\ same_key(table[i].report_date, row.report_date, distinct)
        /\ row.report_date = NULL \/ table[i].location = row.location

\* ON CONFLICT (location, report_date): an existing row has the same key.
conflict(table, row, distinct) ==
    \E i \in 1..Len(table) :
        /\ table[i].location = row.location
        /\ same_key(table[i].report_date, row.report_date, distinct)

\* INSERT ... ON CONFLICT (location, report_date) DO NOTHING, then commit.
insert(table, row, distinct) ==
    IF conflict(table, row, distinct) THEN table ELSE Append(table, row)

AbortBatch(batch, done) ==
    done \o <<"failed">> \o [j \in 1..(Len(batch) - Len(done) - 1) |-> "unattempted"]

\* except Exception: log, conn.rollback(); the for loop goes on.
except_rollback(batch, done) == Append(done, "failed")

(***************************************************************************)
(* lambda_handler (collection)                                             *)
(***************************************************************************)
\* Concurrent invocations of the collection Lambda.
Invocations == {"i1", "i2"}

\* read_urls_from_csv(): the URL column of city_urls.csv.
read_urls_from_csv == <<"u1", "u2">>

Entry(segs) ==
    [title |-> "T", link |-> "L", has_detail |-> TRUE, summary_detail |-> segs]
Loc(t) == Seg("location", t, NoDate, 0, {})
Unav(t) == Seg("unavailable", t, NoDate, 0, {})
Dt(d) == Seg("date", <<>>, d, 0, {})
Aq(a, p) == Seg("air_quality", <<>>, NoDate, a, p)

\* Entries the feeds serve during the collection runs: two reports of one
\* place and instant that differ in their reading, a place without a
\* current reading, and a report whose date carries an unknown zone.
Pool ==
    {Entry(<<Loc(<<"a">>), Dt(Date("short", 1, "")), Aq(1, {"2.5 microns"})>>),
     Entry(<<Loc(<<"a", ",", "b">>), Dt(Date("short", 1, " PDT")),
             Aq(2, {"2.5 microns"})>>),
     Entry(<<Unav(<<"a", " ">>)>>),
     Entry(<<Loc(<<"a">>), Dt(Date("short", 1, " UTC"))>>)}

Feeds(pool, n) == UNION {[1..k -> pool] : k \in 0..n}

NoChange == [present |-> FALSE, value |-> 0]
NoReply ==
    [statusCode |-> 0, location |-> <<>>, timeframe |-> "", pm25_change |-> NoChange,
     pm10_change |-> NoChange, ozone_change |-> NoChange, trend_direction |-> "",
     locations |-> {}]

\* The replies of the two query handlers after a step.
Returned(t, a) == trend' = t /\ above' = a

\* lambda_handler's return values; Running until it returns.
Running == [statusCode |-> 0, body |-> ""]
Completed == [statusCode |-> 200, body |-> "completed successfully"]
Error(e) == [statusCode |-> 500, body |-> e]

\* try: urls = read_urls_from_csv(); conn = get_db_connection()
Start(w) ==
    /\ pc[w] = "start"
    /\ \E connected \in BOOLEAN :
        IF connected
        THEN /\ pc' = [pc EXCEPT ![w] = "fetch"]
             /\ UNCHANGED response
        ELSE /\ pc' = [pc EXCEPT ![w] = "done"]
             /\ response' = [response EXCEPT ![w] = Error("OperationalError")]
    /\ Returned(NoReply, NoReply)
    /\ UNCHANGED <<raw, result, url_i, data, outcomes, air_quality,
                   import_air_quality, nulls_distinct>>

\* data = fetch_rss_feed(url): an exception leaves the for loop for the
\* handler's except clause; an empty list makes save_to_db a no-op.
Fetch(w, feeds) ==
    /\ pc[w] = "fetch"
    /\ url_i[w] <= Len(read_urls_from_csv)
    /\ \E feed \in feeds :
        LET r == fetch_rss_feed(feed)
        IN  IF r.raised
            THEN /\ pc' = [pc EXCEPT ![w] = "done"]
                 /\ response' = [response EXCEPT ![w] = Error("ValueError")]
                 /\ UNCHANGED <<url_i, data, outcomes>>
            ELSE /\ data' = [data EXCEPT ![w] = r.data]
                 /\ outcomes' = [outcomes EXCEPT ![w] = <<>>]
                 /\ IF r.data = <<>>
                    THEN /\ url_i' = [url_i EXCEPT ![w] = @ + 1]
                         /\ UNCHANGED pc
                    ELSE /\ pc' = [pc EXCEPT ![w] = "save"]
                         /\ UNCHANGED url_i
                 /\ UNCHANGED response
    /\ Returned(NoReply, NoReply)
    /\ UNCHANGED <<raw, result, air_quality, import_air_quality, nulls_distinct>>

\* One iteration of save_to_db's loop: execute and commit, or log and roll
\* back.  After the last entry the handler moves to the next URL.
Save(w) ==
    /\ pc[w] = "save"
    /\ Len(outcomes[w]) < Len(data[w])
    /\ LET entry == data[w][Len(outcomes[w]) + 1]
           row == values(entry)
       IN  \E fails \in BOOLEAN :
            /\ IF fails
               THEN /\ outcomes' = [outcomes EXCEPT
                                       ![w] = except_rollback(data[w], @)]
                    /\ UNCHANGED air_quality
               ELSE /\ outcomes' =
                        [outcomes EXCEPT
                            ![w] = Append(@, IF conflict(air_quality, row, nulls_distinct)
                                             THEN "skipped" ELSE "inserted")]
                    /\ air_quality' = insert(air_quality, row, nulls_distinct)
            /\ IF Len(outcomes'[w]) = Len(data[w])
               THEN /\ pc' = [pc EXCEPT ![w] = "fetch"]
                    /\ url_i' = [url_i EXCEPT ![w] = @ + 1]
               ELSE UNCHANGED <<pc, url_i>>
    /\ Returned(NoReply, NoReply)
    /\ UNCHANGED <<raw, result, data, response, import_air_quality, nulls_distinct>>

\* conn.close(); return statusCode 200
Return(w) ==
    /\ pc[w] = "fetch"
    /\ url_i[w] > Len(read_urls_from_csv)
    /\ pc' = [pc EXCEPT ![w] = "done"]
    /\ response' = [response EXCEPT ![w] = Completed]
    /\ Returned(NoReply, NoReply)
    /\ UNCHANGED <<raw, result, url_i, data, outcomes, air_quality,
                   import_air_quality, nulls_distinct>>

NoEntry ==
    [title |-> Absent, link |-> Absent, has_detail |-> FALSE, summary_detail |-> <<>>]
NotRun ==
    [done |-> FALSE, raised |-> FALSE,
     entry |-> [title |-> "", link |-> "", location |-> <<>>, report_date |-> NULL,
                air_quality_pm25 |-> NULL, air_quality_pm10 |-> NULL,
                air_quality_ozone |-> NULL, agency |-> <<>>, last_update |-> NULL]]

Idle ==
    /\ pc = [w \in Invocations |-> "start"]
    /\ url_i = [w \in Invocations |-> 1]
    /\ data = [w \in Invocations |-> <<>>]
    /\ outcomes = [w \in Invocations |-> <<>>]
    /\ response = [w \in Invocations |-> Running]
    /\ air_quality = <<>>
    /\ trend = NoReply
    /\ above = NoReply

Init ==
    /\ Idle
    /\ raw = NoEntry
    /\ result = NotRun
    /\ import_air_quality = <<>>
    /\ nulls_distinct \in BOOLEAN

\* One invocation runs alone.
Next ==
    \E w \in {"i1"} :
        \/ Start(w)
        \/ Fetch(w, Feeds(Pool, MaxEntries))
        \/ Save(w)
        \/ Return(w)

Spec == Init /\ [][Next]_vars

\* Two invocations overlap, each fed at most ConcurrentEntries entries per URL.
NextConcurrent ==
    \E w \in Invocations :
        \/ Start(w)
        \/ Fetch(w, Feeds(Pool, ConcurrentEntries))
        \/ Save(w)
        \/ Return(w)

SpecConcurrent == Init /\ [][NextConcurrent]_vars

(***************************************************************************)
(* Extraction of one entry, on its own                                     *)
(***************************************************************************)
InitExtract ==
    /\ Idle
    /\ raw \in RawEntries
    /\ result = NotRun
    /\ import_air_quality = <<>>
    /\ nulls_distinct = TRUE

Extract ==
    /\ ~result.done
    /\ result' = [done |-> TRUE, raised |-> entry_data(raw).raised,
                   entry |-> entry_data(raw).entry]
    /\ UNCHANGED <<raw, pc, url_i, data, outcomes, response, air_quality,
                   import_air_quality, nulls_distinct, trend, above>>

SpecExtract == InitExtract /\ [][Extract]_vars

\* The entry has been through the loop body and carried a detailed summary.
Extracted == result.done /\ raw.has_detail

\* k is t without its surrounding whitespace.
IsTrimOf(k, t) ==
    /\ k = <<>> \/ (~IsSpace(k[1]) /\ ~IsSpace(k[Len(k)]))
    /\ \E a \in 0..Len(t) :
        /\ a + Len(k) <= Len(t)
        /\ SubSeq(t, a + 1, a + Len(k)) = k
        /\ \A i \in 1..Len(t) : (i <= a \/ i > a + Len(k)) => IsSpace(t[i])

AllDefaults(e) ==
    /\ e.location = NoLocation
    /\ e.agency = NoAgency
    /\ e.report_date = NULL
    /\ e.last_update = NULL
    /\ e.air_quality_pm25 = NULL
    /\ e.air_quality_pm10 = NULL
    /\ e.air_quality_ozone = NULL

\* C4: extraction of an entry never raises, whatever its summary holds, and
\* an entry with no detailed summary yields all defaults.
C4_ExtractionNeverFails ==
    result.done =>
        /\ ~result.raised
        /\ ~raw.has_detail => AllDefaults(result.entry)

\* C6: with the 'unavailable' marker in the summary, location is the
\* captured text trimmed of whitespace and nothing else is derived, whatever
\* else the summary holds.
C6_UnavailableOnlyLocation ==
    (Extracted /\ re_search(raw.summary_detail, "unavailable") # 0) =>
        LET marker == raw.summary_detail[re_search(raw.summary_detail, "unavailable")]
        IN  /\ ~result.raised
            /\ IsTrimOf(result.entry.location, marker.text)
            /\ AllDefaults([result.entry EXCEPT !.location = NoLocation])

\* The pollutant an AQI match classifies to.
ClassOf(m) ==
    IF "2.5 microns" \in m.pollutant THEN "pm25"
    ELSE IF "10 microns" \in m.pollutant THEN "pm10"
    ELSE IF "Ozone" \in m.pollutant THEN "ozone"
    ELSE "none"

\* The AQI of the last match that classifies to the pollutant, NULL if none.
LastOf(matches, pollutant) ==
    LET of == {j \in 1..Len(matches) : ClassOf(matches[j]) = pollutant}
    IN  IF of = {} THEN NULL
        ELSE matches[CHOOSE j \in of : \A k \in of : k <= j].aqi

HoldsLastMatches(e, html) ==
    LET matches == SelectSeq(html, LAMBDA g : g.kind = "air_quality")
    IN  /\ e.air_quality_pm25 = LastOf(matches, "pm25")
        /\ e.air_quality_pm10 = LastOf(matches, "pm10")
        /\ e.air_quality_ozone = LastOf(matches, "ozone")

\* C7 as stated: for any sequence of AQI matches in a summary, each reading
\* of the extracted entry is the AQI of the last match that classifies to it.
C7_LastMatchWinsAnySummary ==
    (Extracted /\ ~result.raised) =>
        HoldsLastMatches(result.entry, raw.summary_detail)

\* C7: in a summary without the 'unavailable' marker, each reading of the
\* extracted entry is the AQI of the last match that classifies to it, absent
\* when no match does; and with the marker every reading is absent.
C7_LastMatchWins ==
    (Extracted /\ ~result.raised) =>
        IF re_search(raw.summary_detail, "unavailable") = 0
        THEN HoldsLastMatches(result.entry, raw.summary_detail)
        ELSE HoldsLastMatches(result.entry, <<>>)

\* Two matches of one pollutant with different values were extracted, and one
\* match that classifies to nothing.
C7_Witness ==
    /\ Extracted /\ ~result.raised
    /\ raw.summary_detail = <<Aq(1, {"Ozone"}), Aq(2, {"Ozone"})>>
    /\ result.entry.air_quality_ozone = 2
    /\ result.entry.air_quality_pm25 = NULL

(***************************************************************************)
(* Claims about the store and the collection run                           *)
(***************************************************************************)
SameKeyPair(r1, r2) ==
    r1.location = r2.location /\ r1.report_date = r2.report_date

\* C1: after any sequence of inserts the table holds at most one record per
\* (location key, report timestamp) pair: an insert whose pair is already
\* present is a no-op.
C1_OneRecordPerKeyPair ==
    \A i, j \in 1..Len(air_quality) :
        SameKeyPair(air_quality[i], air_quality[j]) => i = j

Attempted == {"inserted", "skipped", "failed"}

C3_FetchFailureIsolated ==
    \A w \in Invocations :
        (pc[w] = "done" /\ response[w].body # "OperationalError")
            => url_i[w] > Len(read_urls_from_csv)

\* C5: no interleaving of two invocations leaves two stored records for one
\* key pair: two invocations never both insert a record of the same pair.
C5_ConcurrentInsertAtomic ==
    \A w1, w2 \in Invocations :
        \A j1 \in 1..Len(outcomes[w1]), j2 \in 1..Len(outcomes[w2]) :
            (/\ w1 # w2
             /\ outcomes[w1][j1] = "inserted"
             /\ outcomes[w2][j2] = "inserted")
            => ~SameKeyPair(values(data[w1][j1]), values(data[w2][j2]))

(***************************************************************************)
(* The location key                                                        *)
(***************************************************************************)
Chars == {"a", " ", ","}
LocTexts == UNION {[1..n -> Chars] : n \in 0..MaxLocLen}

\* One entry per location text, as a report and as an 'unavailable' notice.
KeyPool ==
    {Entry(<<Loc(t), Dt(Date("short", 1, "")), Aq(1, {"Ozone"})>>) : t \in LocTexts}
    \cup {Entry(<<Unav(t)>>) : t \in LocTexts}

NextKey ==
    \E w \in {"i1"} :
        \/ Start(w)
        \/ Fetch(w, {<<e>> : e \in KeyPool})
        \/ Save(w)
        \/ Return(w)

SpecKey == Init /\ [][NextKey]_vars

NoComma(t) == \A i \in 1..Len(t) : t[i] # ","

\* p is the part of t before its first comma, all of t when it has none.
IsBeforeFirstComma(p, t) ==
    \E n \in 0..Len(t) :
        /\ p = SubSeq(t, 1, n)
        /\ NoComma(p)
        /\ n = Len(t) \/ t[n + 1] = ","

IsLocationKey(k, location) ==
    \E n \in 0..Len(location) :
        /\ IsBeforeFirstComma(SubSeq(location, 1, n), location)
        /\ IsTrimOf(k, SubSeq(location, 1, n))

\* C8: every record stored carries as location key the part of the extracted
\* location before its first comma, trimmed of whitespace, and every other
\* field as extraction produced it.
C8_StoredKeyAndFields ==
    [][air_quality' # air_quality =>
        \E w \in Invocations :
            /\ pc[w] = "save"
            /\ Len(outcomes[w]) < Len(data[w])
            /\ Len(air_quality') = Len(air_quality) + 1
            /\ SubSeq(air_quality', 1, Len(air_quality)) = air_quality
            /\ LET entry == data[w][Len(outcomes[w]) + 1]
                   row == air_quality'[Len(air_quality')]
               IN  /\ IsLocationKey(row.location, entry.location)
                   /\ [row EXCEPT !.location = entry.location] = entry]_vars

\* A record was stored whose location had whitespace before its first comma.
C8_Witness ==
    \E w \in Invocations :
        /\ outcomes[w] = <<"inserted">>
        /\ data[w][1].location = <<"a", " ", ",">>
        /\ \E i \in 1..Len(air_quality) :
            air_quality[i] = [data[w][1] EXCEPT !.location = <<"a">>]

(***************************************************************************)
(* lambda_get_air_quality_trend                                            *)
(***************************************************************************)
Week == 7
Month == 30

\* Python truth value of a column value: None and 0 are false.
truthy(x) == x # NULL /\ x # 0

\* round(n / d * 100, 2) for d > 0, in hundredths of a percent.
round2(n, d) ==
    LET x == n * 10000
        q == x \div d
        r == x - q * d
    IN  IF 2 * r < d THEN q
        ELSE IF 2 * r > d THEN q + 1
        ELSE IF q % 2 = 0 THEN q ELSE q + 1

ChangeToZero(start, end) ==
    IF truthy(start) /\ end # NULL
    THEN [present |-> TRUE, value |-> round2(end - start, start)]
    ELSE NoChange

\* if start and end: round(((end - start) / start) * 100, 2), else None
calculate_change(start, end) ==
    IF truthy(start) /\ truthy(end)
    THEN [present |-> TRUE, value |-> round2(end - start, start)]
    ELSE NoChange

Ix(table) == 1..Len(table)

\* WHERE location = %s AND report_date >= %s (never true of a NULL date)
in_range(table, location, since) ==
    {i \in Ix(table) : /\ table[i].location = location
                       /\ table[i].report_date # NULL
                       /\ table[i].report_date >= since}

\* MIN(report_date) and MAX(report_date), NULL over no rows.
min_date(table, rows) ==
    IF rows = {} THEN NULL
    ELSE LET i == CHOOSE i \in rows :
                      \A j \in rows : table[i].report_date <= table[j].report_date
         IN  table[i].report_date

max_date(table, rows) ==
    IF rows = {} THEN NULL
    ELSE LET i == CHOOSE i \in rows :
                      \A j \in rows : table[i].report_date >= table[j].report_date
         IN  table[i].report_date

\* Rows of (SELECT ... WHERE location = %s AND report_date = dr.<date>).
at_date(table, location, date) ==
    {i \in Ix(table) : /\ table[i].location = location
                       /\ date # NULL
                       /\ table[i].report_date = date}

\* Value of a scalar subquery over the rows: NULL when there is none.
scalar(table, rows, column) ==
    IF rows = {} THEN NULL ELSE table[CHOOSE i \in rows : TRUE][column]

DirectionUnfiltered(changes) ==
    IF \A i \in 1..Len(changes) : changes[i].present /\ changes[i].value < 0
    THEN "improving"
    ELSE IF \A i \in 1..Len(changes) : changes[i].present /\ changes[i].value > 0
    THEN "worsening"
    ELSE "mixed"

\* 'improving' if all(...) else 'worsening' if all(...) else 'mixed', over
\* the values of trend_data that are floats.
trend_direction(changes) ==
    LET floats == SelectSeq(changes, LAMBDA c : c.present)
    IN  IF \A i \in 1..Len(floats) : floats[i].value < 0 THEN "improving"
        ELSE IF \A i \in 1..Len(floats) : floats[i].value > 0 THEN "worsening"
        ELSE "mixed"

lambda_get_air_quality_trend(table, location, timeframe, now) ==
    IF timeframe \notin {"week", "month"}
    THEN [NoReply EXCEPT !.statusCode = 400]
    ELSE
    LET since == now - (IF timeframe = "week" THEN Week ELSE Month)
        rows == in_range(table, location, since)
        first == at_date(table, location, min_date(table, rows))
        last == at_date(table, location, max_date(table, rows))
        pm25 == calculate_change(scalar(table, first, "air_quality_pm25"),
                                 scalar(table, last, "air_quality_pm25"))
        pm10 == calculate_change(scalar(table, first, "air_quality_pm10"),
                                 scalar(table, last, "air_quality_pm10"))
        ozone == calculate_change(scalar(table, first, "air_quality_ozone"),
                                  scalar(table, last, "air_quality_ozone"))
    IN  IF Cardinality(first) > 1 \/ Cardinality(last) > 1
        THEN [NoReply EXCEPT !.statusCode = 500]
        ELSE [NoReply EXCEPT
                 !.statusCode = 200,
                 !.location = location,
                 !.timeframe = timeframe,
                 !.pm25_change = pm25,
                 !.pm10_change = pm10,
                 !.ozone_change = ozone,
                 !.trend_direction = trend_direction(<<pm25, pm10, ozone>>)]

\* The days on which the query is made.
Nows == {40, 50}
Timeframes == {"week", "month", "year"}
Readings == {NULL} \cup 0..MaxReading
Measurable == Readings \ {0}

Measured(a, kw) == IF a = NULL THEN <<>> ELSE <<Aq(a, {kw})>>

Report(t, day, pm25, pm10, ozone) ==
    Entry(<<Loc(t), Dt(Date("short", day, ""))>>
          \o Measured(pm25, "2.5 microns") \o Measured(pm10, "10 microns")
          \o Measured(ozone, "Ozone"))

\* The first URL serves a report of the earlier day, the second one of the
\* later day.
DayOf(i) == IF i = 1 THEN 10 ELSE 35

TrendPool(i) ==
    {Report(<<"a">>, DayOf(i), x, y, z) :
        x \in Readings, y \in Measurable, z \in Measurable}

GetTrend ==
    /\ \E location \in {<<"a">>, <<"b">>}, timeframe \in Timeframes, now \in Nows :
        Returned(lambda_get_air_quality_trend(air_quality, location, timeframe, now),
                 NoReply)
    /\ UNCHANGED <<raw, result, pc, url_i, data, outcomes, response, air_quality,
                   import_air_quality, nulls_distinct>>

\* Every report of the query runs is dated, so the index's treatment of NULL
\* plays no part in them.
InitQuery ==
    /\ Idle
    /\ raw = NoEntry
    /\ result = NotRun
    /\ import_air_quality = <<>>
    /\ nulls_distinct = TRUE

NextTrend ==
    \/ \E w \in {"i1"} :
        \/ Start(w)
        \/ Fetch(w, {<<e>> : e \in TrendPool(url_i[w])})
        \/ Save(w)
        \/ Return(w)
    \/ GetTrend

SpecTrend == InitQuery /\ [][NextTrend]_vars

Negative(c) == c.present => c.value < 0
Positive(c) == c.present => c.value > 0

Abs(x) == IF x < 0 THEN -x ELSE x

\* A change that is present is the percent change of the column, to the
\* nearest hundredth, from the earliest to the latest record of the location
\* dated since the given day.
IsWindowChange(c, column, location, since) ==
    c.present =>
        \E i, j \in Ix(air_quality) :
            LET inWindow(k) == /\ air_quality[k].location = location
                               /\ air_quality[k].report_date # NULL
                               /\ air_quality[k].report_date >= since
                from == air_quality[i][column]
                to == air_quality[j][column]
            IN  /\ inWindow(i) /\ inWindow(j)
                /\ \A k \in Ix(air_quality) : inWindow(k) =>
                        /\ air_quality[i].report_date <= air_quality[k].report_date
                        /\ air_quality[k].report_date <= air_quality[j].report_date
                /\ from > 0 /\ to > 0
                /\ 2 * Abs(c.value * from - (to - from) * 10000) <= from

\* C9: the changes of the trend reply are those between the earliest and the
\* latest record of the window, and the reply is 'improving' when every
\* change that is present is negative, otherwise 'worsening' when every
\* change that is present is positive, otherwise 'mixed'.
C9_TrendDirection ==
    trend.statusCode = 200 =>
        LET changes == {trend.pm25_change, trend.pm10_change, trend.ozone_change}
        IN  /\ trend.trend_direction =
                    IF \A c \in changes : Negative(c) THEN "improving"
                    ELSE IF \A c \in changes : Positive(c) THEN "worsening"
                    ELSE "mixed"
            /\ \E now \in Nows :
                LET since == now - (IF trend.timeframe = "week" THEN 7 ELSE 30)
                IN  /\ IsWindowChange(trend.pm25_change, "air_quality_pm25",
                                      trend.location, since)
                    /\ IsWindowChange(trend.pm10_change, "air_quality_pm10",
                                      trend.location, since)
                    /\ IsWindowChange(trend.ozone_change, "air_quality_ozone",
                                      trend.location, since)

\* pm25 and pm10 rose between the two reports of the window, ozone was not
\* measured, and the reply is 'worsening'.
C9_Witness ==
    /\ trend.statusCode = 200
    /\ trend.trend_direction = "worsening"
    /\ trend.pm25_change.present /\ trend.pm25_change.value > 0
    /\ trend.pm10_change.present /\ trend.pm10_change.value > 0
    /\ ~trend.ozone_change.present
    /\ Len(air_quality) = 2
    /\ air_quality[1].air_quality_pm25 < air_quality[2].air_quality_pm25
    /\ air_quality[1].air_quality_ozone = NULL
    /\ air_quality[2].air_quality_ozone = NULL

\* The column has a value other than zero in both the earliest and the latest
\* record of the location dated since the given day.
BothNonZero(column, location, since) ==
    \E i, j \in Ix(air_quality) :
        LET inWindow(k) == /\ air_quality[k].location = location
                           /\ air_quality[k].report_date # NULL
                           /\ air_quality[k].report_date >= since
        IN  /\ inWindow(i) /\ inWindow(j)
            /\ \A k \in Ix(air_quality) : inWindow(k) =>
                    /\ air_quality[i].report_date <= air_quality[k].report_date
                    /\ air_quality[k].report_date <= air_quality[j].report_date
            /\ air_quality[i][column] \notin {NULL, 0}
            /\ air_quality[j][column] \notin {NULL, 0}

\* C12: in the trend reply a pollutant's change is present exactly when its
\* start and end values are both present and non-zero, and when none of the
\* three changes is present the trend_direction is 'improving'.
C12_ChangeOnlyOfNonZero ==
    trend.statusCode = 200 =>
        /\ \E now \in Nows :
            LET since == now - (IF trend.timeframe = "week" THEN Week ELSE Month)
            IN  /\ trend.pm25_change.present
                        <=> BothNonZero("air_quality_pm25", trend.location, since)
                /\ trend.pm10_change.present
                        <=> BothNonZero("air_quality_pm10", trend.location, since)
                /\ trend.ozone_change.present
                        <=> BothNonZero("air_quality_ozone", trend.location, since)
        /\ (/\ ~trend.pm25_change.present
            /\ ~trend.pm10_change.present
            /\ ~trend.ozone_change.present) => trend.trend_direction = "improving"

\* pm25 was 0 in the earlier report, pm10 was measured in the earlier report
\* only and ozone in neither: no change is present and the reply is
\* 'improving'.
C12_Witness ==
    /\ trend.statusCode = 200
    /\ trend.location = <<"a">>
    /\ trend.timeframe = "month"
    /\ Len(air_quality) = 2
    /\ air_quality[1].air_quality_pm25 = 0
    /\ air_quality[2].air_quality_pm25 = 2
    /\ air_quality[1].air_quality_pm10 = 1
    /\ air_quality[2].air_quality_pm10 = NULL
    /\ air_quality[1].air_quality_ozone = NULL
    /\ air_quality[2].air_quality_ozone = NULL
    /\ ~trend.pm25_change.present
    /\ ~trend.pm10_change.present
    /\ ~trend.ozone_change.present
    /\ trend.trend_direction = "improving"

(***************************************************************************)
(* lambda_get_above_avg_locations                                          *)
(***************************************************************************)
Threshold == 100

\* col > 100, never true of a NULL
above_threshold(x) == x # NULL /\ x > Threshold

lambda_get_above_avg_locations(table) ==
    LET dated == {i \in Ix(table) : table[i].report_date # NULL}
        latest == max_date(table, dated)
        locations ==
            {table[i].location : i \in
                {i \in dated :
                    /\ table[i].report_date = latest
                    /\ \/ above_threshold(table[i].air_quality_pm10)
                       \/ above_threshold(table[i].air_quality_pm25)
                       \/ above_threshold(table[i].air_quality_ozone)}}
    IN  IF locations # {}
        THEN [NoReply EXCEPT !.statusCode = 200, !.locations = locations]
        ELSE [NoReply EXCEPT !.statusCode = 404]

AboveValues == {50, 150}

AbovePool(i) ==
    {Report(t, DayOf(i), x, NULL, z) :
        t \in {<<"a">>, <<"b">>}, x \in AboveValues, z \in {NULL} \cup AboveValues}

\* What import_air_quality may hold: the collection code never writes it.
ImportTables ==
    {<<>>} \cup {<<values(entry_data(e).entry)>> : e \in AbovePool(1)}

InitAbove ==
    /\ Idle
    /\ raw = NoEntry
    /\ result = NotRun
    /\ import_air_quality \in ImportTables
    /\ nulls_distinct = TRUE

GetAbove ==
    /\ Returned(NoReply, lambda_get_above_avg_locations(import_air_quality))
    /\ UNCHANGED <<raw, result, pc, url_i, data, outcomes, response, air_quality,
                   import_air_quality, nulls_distinct>>

NextAbove ==
    \/ \E w \in {"i1"} :
        \/ Start(w)
        \/ Fetch(w, {<<e>> : e \in AbovePool(url_i[w])})
        \/ Save(w)
        \/ Return(w)
    \/ GetAbove

SpecAbove == InitAbove /\ [][NextAbove]_vars

\* The records of a location with the greatest report timestamp.
OwnLatest(table, location) ==
    {i \in Ix(table) :
        /\ table[i].location = location
        /\ table[i].report_date # NULL
        /\ \A j \in Ix(table) :
            table[j].location = location => table[j].report_date <= table[i].report_date}

Exceeds(row) ==
    \/ row.air_quality_pm25 > 100
    \/ row.air_quality_pm10 > 100
    \/ row.air_quality_ozone > 100

\* C10: the threshold query returns exactly the location keys whose own most
\* recent record, among those the collection run stored, has a reading
\* above 100.
C10_AboveOwnLatest ==
    above.statusCode # 0 =>
        above.locations =
            {air_quality[i].location : i \in
                {i \in Ix(air_quality) :
                    /\ i \in OwnLatest(air_quality, air_quality[i].location)
                    /\ Exceeds(air_quality[i])}}

(***************************************************************************)
(* Records without a report timestamp                                      *)
(***************************************************************************)
\* Entries without a date: two places without a current reading, and a
\* report of the second place that names no date.
NullPool ==
    {Entry(<<Unav(<<"a", " ">>)>>),
     Entry(<<Unav(<<"b">>)>>),
     Entry(<<Loc(<<"b", ",", "c">>), Aq(1, {"Ozone"})>>)}

NextNull ==
    \E w \in {"i1"} :
        \/ Start(w)
        \/ Fetch(w, Feeds(NullPool, MaxEntries))
        \/ Save(w)
        \/ Return(w)

SpecNull == Init /\ [][NextNull]_vars

\* The table holds a record of this location key with a NULL report_date.
StoredUndated(location) ==
    \E i \in 1..Len(air_quality) :
        /\ air_quality[i].location = location
        /\ air_quality[i].report_date = NULL

\* C11: records with a NULL report timestamp are keyed by location key and
\* timestamp only: once the insert of such a record has run without an
\* error, the table holds a NULL-timestamp record of its location key, so
\* two such records of distinct location keys are both stored, and the
\* first of a location key to be attempted is inserted, never skipped.
C11_NullDatesKeptPerLocation ==
    \A w \in Invocations :
        \A j \in 1..Len(outcomes[w]) :
            LET row == values(data[w][j])
            IN  (row.report_date = NULL /\ outcomes[w][j] # "failed") =>
                    /\ StoredUndated(row.location)
                    /\ (/\ url_i[w] = 1
                        /\ \A k \in 1..(j - 1) :
                               values(data[w][k]).location # row.location)
                       => outcomes[w][j] = "inserted"

\* One batch inserted two records with NULL report timestamps for two
\* distinct location keys, and the table holds both.
C11_Witness ==
    \E w \in Invocations :
        /\ Len(outcomes[w]) >= 2
        /\ outcomes[w][1] = "inserted" /\ outcomes[w][2] = "inserted"
        /\ values(data[w][1]).report_date = NULL
        /\ values(data[w][2]).report_date = NULL
        /\ values(data[w][1]).location = <<"a">>
        /\ values(data[w][2]).location = <<"b">>
        /\ StoredUndated(<<"a">>) /\ StoredUndated(<<"b">>)

====
